---- MODULE Spec2Model ----
(***************************************************************************)
(* A model of pimsviewer's widgets.py: the VideoTimer playback clock and   *)
(* the Slider widget.                                                      *)
(*                                                                         *)
(* Numbers.  Python floats are modelled by exact rationals.  Wall-clock    *)
(* time is an integer count of 1/TimeDen seconds; a slider's domain value  *)
(* is an integer count of 1/Unit.  An attribute that holds None is the     *)
(* empty tuple, one that holds x is <<x>>; the attributes an object has    *)
(* are listed in its attrs field (reading any other is an AttributeError). *)
(***************************************************************************)
EXTENDS Integers, Sequences, FiniteSets, TLC

VARIABLES now, timer, next_frame, raised, lastOp, runs, runTick, slider, callback_calls,
          fpsChanged

vars == <<now, timer, next_frame, raised, lastOp, runs, runTick, slider, callback_calls,
          fpsChanged>>

(* ------------------------------ bounds --------------------------------- *)

\* wall-clock time runs from 0 to MaxTime, in units of 1/TimeDen second
MaxTime == 8
TimeDen == 2

\* the arguments the operations are called with
StartIndexes == {-1, 0, 3}
Lengths == {-2, 0, 1, 5, 10}
FpsValues == {-1, 0, 1, 2}

(* --------------------------- Python arithmetic -------------------------- *)

None == <<>>
Some(x) == <<x>>
IsSet(f) == f /= None
Val(f) == f[1]

Abs(a) == IF a < 0 THEN -a ELSE a

\* Python's a // b for b /= 0: the floor of the quotient
PyFloorDiv(a, b) ==
    LET q == Abs(a) \div Abs(b)
        exact == q * Abs(b) = Abs(a)
    IN  IF (a >= 0) = (b > 0) THEN q
        ELSE IF exact THEN -q ELSE -(q + 1)

\* Python's a % b for b /= 0: the remainder has the sign of b
PyMod(a, b) == a - b * PyFloorDiv(a, b)

\* int(x) of the rational n/d, d /= 0: truncation toward zero
PyInt(n, d) ==
    LET q == Abs(n) \div Abs(d)
    IN  IF (n >= 0) = (d > 0) THEN q ELSE -q

(* ------------------------------ VideoTimer ------------------------------ *)

\* the result of a method call: the object after it, the signal emissions it
\* made, and the exception it raised ("" when it returned)
Result(self, emit, exc) == [self |-> self, emit |-> emit, raised |-> exc]

\* VideoTimer.__init__; a QTimer is created inactive with interval 0
VideoTimer_init ==
    [attrs |-> {"index", "_len"},
     index |-> None,
     _len |-> None,
     start_index |-> None,
     start_time |-> None,
     _interval |-> None,
     active |-> FALSE,
     period |-> 0]

\* a variant of the fps setter that refuses a value that is not positive
VideoTimer_set_fps_checked(self, value) ==
    IF value <= 0 THEN Result(self, <<>>, "ValueError")
    ELSE Result([self EXCEPT !.attrs = @ \cup {"_interval"},
                             !._interval = Some(<<1, value>>),
                             !.period = PyInt(1000, value)],
                <<>>, "")

\* a variant of the fps setter whose new interval waits for the next start
\* when the clock is running
VideoTimer_set_fps_deferred(self, value) ==
    IF value = 0 THEN Result(self, <<>>, "ZeroDivisionError")
    ELSE LET iv == IF value > 0 THEN <<1, value>> ELSE <<-1, -value>>
         IN  Result([self EXCEPT !.attrs = @ \cup {"_interval"},
                                 !._interval = IF self.active /\ IsSet(@) THEN @
                                               ELSE Some(iv),
                                 !.period = PyInt(iv[1] * 1000, iv[2])],
                    <<>>, "")

\* a variant of the fps setter that stops the QTimer to change its interval
VideoTimer_set_fps_stops(self, value) ==
    IF value = 0 THEN Result(self, <<>>, "ZeroDivisionError")
    ELSE LET iv == IF value > 0 THEN <<1, value>> ELSE <<-1, -value>>
         IN  Result([self EXCEPT !.attrs = @ \cup {"_interval"},
                                 !._interval = Some(iv),
                                 !.period = PyInt(iv[1] * 1000, iv[2]),
                                 !.active = FALSE],
                    <<>>, "")

\* fps.setter: _interval = 1 / value, kept as the rational <<num, den>> with
\* den > 0, then QTimer.setInterval(_interval * 1000) in whole milliseconds
VideoTimer_set_fps(self, value) ==
    IF value = 0 THEN Result(self, <<>>, "ZeroDivisionError")
    ELSE LET iv == IF value > 0 THEN <<1, value>> ELSE <<-1, -value>>
         IN  Result([self EXCEPT !.attrs = @ \cup {"_interval"},
                                 !._interval = Some(iv),
                                 !.period = PyInt(iv[1] * 1000, iv[2])],
                    <<>>, "")

\* a variant of start that refuses a length that is not positive
VideoTimer_start_checked(self, index, length, t) ==
    IF length <= 0 THEN Result(self, <<>>, "ValueError")
    ELSE Result([self EXCEPT !.attrs = @ \cup {"start_index", "start_time"},
                             !.start_index = Some(index),
                             !._len = Some(length),
                             !.start_time = Some(t),
                             !.active = TRUE],
                <<>>, "")

VideoTimer_start(self, index, length, t) ==
    Result([self EXCEPT !.attrs = @ \cup {"start_index", "start_time"},
                        !.start_index = Some(index),
                        !._len = Some(length),
                        !.start_time = Some(t),
                        !.active = TRUE],
           <<>>, "")

\* a variant of stop that forgets to clear start_time
VideoTimer_stop_keeps_time(self) ==
    Result([self EXCEPT !.attrs = @ \cup {"start_index", "start_time"},
                        !.active = FALSE,
                        !.start_index = None,
                        !._len = None],
           <<>>, "")

VideoTimer_stop(self) ==
    Result([self EXCEPT !.attrs = @ \cup {"start_index", "start_time"},
                        !.active = FALSE,
                        !.start_index = None,
                        !._len = None,
                        !.start_time = None],
           <<>>, "")

\* a variant of the frame index with a remainder that takes the sign of the
\* dividend, as C's % does
FrameIndex_c_remainder(self, t) ==
    LET iv == Val(self._interval)
        index == PyFloorDiv((t - Val(self.start_time)) * iv[2], TimeDen * iv[1])
        a == index + Val(self.start_index)
        b == Val(self._len)
    IN  a - b * PyInt(a, b)

\* the frame index of VideoTimer.next at time t, for a timer whose attributes
\* are all numbers and whose _len is not 0:
\*   index = int((time() - start_time) // _interval)
\*   index = (index + start_index) % _len
\* (t - start_time) counts 1/TimeDen seconds and _interval is num/den seconds
FrameIndex(self, t) ==
    LET iv == Val(self._interval)
        index == PyFloorDiv((t - Val(self.start_time)) * iv[2], TimeDen * iv[1])
    IN  PyMod(index + Val(self.start_index), Val(self._len))

\* a variant of VideoTimer.next that steps a stored counter instead of
\* recomputing the index from the elapsed time
VideoTimer_next_counting(self, t) ==
    IF \/ ~({"start_time", "start_index", "_interval"} \subseteq self.attrs)
       \/ ~IsSet(self.start_time) \/ ~IsSet(self._len)
    THEN Result(self, <<>>, "TypeError")
    ELSE IF Val(self._len) = 0 THEN Result(self, <<>>, "ZeroDivisionError")
    ELSE LET prev == IF IsSet(self.index) THEN Val(self.index)
                     ELSE Val(self.start_index)
             index == PyMod(prev + 1, Val(self._len))
         IN  Result([self EXCEPT !.index = Some(index)], <<index>>, "")

\* a variant of VideoTimer.next that returns quietly when the timer is idle
VideoTimer_next_guarded(self, t) ==
    IF \/ ~({"start_time", "start_index", "_interval"} \subseteq self.attrs)
       \/ ~IsSet(self.start_time) \/ ~IsSet(self._len)
    THEN Result(self, <<>>, "")
    ELSE IF Val(self._len) = 0 THEN Result(self, <<>>, "ZeroDivisionError")
    ELSE Result(self, <<FrameIndex(self, t)>>, "")

\* VideoTimer.next, the statements in the order Python evaluates them
VideoTimer_next(self, t) ==
    IF "start_time" \notin self.attrs THEN Result(self, <<>>, "AttributeError")
    ELSE IF ~IsSet(self.start_time) THEN Result(self, <<>>, "TypeError")
    ELSE IF "_interval" \notin self.attrs THEN Result(self, <<>>, "AttributeError")
    ELSE IF Val(self._len) = 0 THEN Result(self, <<>>, "ZeroDivisionError")
    ELSE Result(self, <<FrameIndex(self, t)>>, "")

(* -------------------------------- Slider -------------------------------- *)

\* the float slider is divided into slider_max discrete values
slider_max == 1000

\* domain values count 1/Unit: the four decimals of '{0:.4f}'
Unit == 10 ^ 4

\* the contents of the editbox.  A text that reads as a number is held as the
\* number it denotes, in 1/Unit; "junk" is a text float() rejects, "nan" one
\* it reads as not-a-number
NumText(u) == [kind |-> "num", u |-> u]
JunkText == [kind |-> "junk", u |-> 0]
NanText == [kind |-> "nan", u |-> 0]

\* n/d rounded to the nearest integer, d > 0 (halves upward)
RoundDiv(n, d) == PyFloorDiv(2 * n + d, 2 * d)

\* '{0:.4f}'.format(n/d): the text of n/d to four decimals
Format4f(n, d) == NumText(RoundDiv(n * Unit, d))

\* '%2.2f' % v: the text of v to two decimals
Format2f(v) == NumText(RoundDiv(v * 100, Unit) * (Unit \div 100))

\* '%d' % v: the text of the integer part of v
FormatD(v) == NumText(PyInt(v, Unit) * Unit)

\* str(v): the text that denotes v itself
Str(v) == NumText(v)

\* float(text): <<TRUE, v>> or, on a ValueError, <<FALSE, 0>>
ParseFloat(text) ==
    IF text.kind = "junk" THEN <<FALSE, 0>> ELSE <<TRUE, text.u>>

\* self._low <= value <= self._high, which is False for a nan
InRange(self, text) ==
    text.kind = "num" /\ self._low <= text.u /\ text.u <= self._high

NoSlider == [exists |-> FALSE]

\* a variant of QSlider.setValue that rounds to the nearest position
QSlider_bound_round(self, n, d) ==
    LET v == RoundDiv(n, d)
    IN  IF v < self.smin THEN self.smin
        ELSE IF v > self.smax THEN self.smax ELSE v

\* a variant of QSlider.setValue without the bounding to the range
QSlider_unbounded(self, n, d) == PyInt(n, d)

\* QSlider.setValue(n/d): the argument is taken as an int (toward zero) and
\* bounded to the slider's range; the new position
QSlider_bound(self, n, d) ==
    LET v == PyInt(n, d)
    IN  IF v < self.smin THEN self.smin
        ELSE IF v > self.smax THEN self.smax ELSE v

\* a variant of the getter that scales the position whatever the value type
Slider_val_always_scaled(self) == self.pos * self._scale + self._low

\* Slider.val (getter), in 1/Unit
Slider_val(self) ==
    IF self.value_type = "float" THEN self.pos * self._scale + self._low
    ELSE self.pos * Unit

\* Slider._on_slider_changed: the slider after it and the callback call it makes
Slider_on_slider_changed(self) ==
    LET value == Slider_val(self)
    IN  Result([self EXCEPT !.text = Str(value)], <<<<self.name, value>>>>, "")

\* Slider.val (setter).  QSlider.setValue emits valueChanged when the position
\* changes; with update_on = 'move' that signal runs _on_slider_changed before
\* the setter goes on to set the editbox text
Slider_set_val(self, value) ==
    IF self.value_type = "float" /\ self._scale = 0
    THEN Result(self, <<>>, "ZeroDivisionError")
    ELSE
    LET isf == self.value_type = "float"
        n == IF isf THEN value - self._low ELSE value
        d == IF isf THEN self._scale ELSE Unit
        value_str == IF isf THEN Format4f(n, d) ELSE Str(value)
        newpos == QSlider_bound(self, n, d)
        moved == [self EXCEPT !.pos = newpos]
        sig == IF newpos /= self.pos /\ self.connected = "move"
               THEN Slider_on_slider_changed(moved)
               ELSE Result(moved, <<>>, "")
        after == IF sig.self.has_editbox
                 THEN [sig.self EXCEPT !.text = value_str]
                 ELSE sig.self
    IN  Result(after, sig.emit, "")

Slider_good_editbox_input(self) == [self EXCEPT !.style = "white"]

Slider_bad_editbox_input(self) == [self EXCEPT !.style = "pink"]

\* a variant of _on_editbox_changed that leaves out the range test
Slider_on_editbox_changed_norange(self) ==
    LET parsed == ParseFloat(self.text)
    IN  IF ~parsed[1] \/ self.text.kind = "nan"
        THEN Result(Slider_bad_editbox_input(self), <<>>, "")
        ELSE LET set == Slider_set_val(self, parsed[2])
             IN  Result(Slider_good_editbox_input(set.self),
                        set.emit \o <<<<self.name, parsed[2]>>>>, "")

\* Slider._on_editbox_changed, run when the user finishes editing the editbox
Slider_on_editbox_changed(self) ==
    LET parsed == ParseFloat(self.text)
    IN  IF ~parsed[1] THEN Result(Slider_bad_editbox_input(self), <<>>, "")
        ELSE IF ~InRange(self, self.text)
        THEN Result(Slider_bad_editbox_input(self), <<>>, "")
        ELSE LET set == Slider_set_val(self, parsed[2])
             IN  Result(Slider_good_editbox_input(set.self),
                        set.emit \o <<<<self.name, parsed[2]>>>>, "")

\* Slider.__init__ from the value_type test on (lines 107-149), with low,
\* high and value in 1/Unit and value = None for the default.  A QSlider is
\* created with range 0..99 at position 0, and setRange(min, max) takes the
\* larger of min and max as its maximum.  An exception leaves no slider
Slider_construct(low, high, value, value_type, orientation, update_on) ==
    IF value_type \notin {"float", "int"}
    THEN Result(NoSlider, <<>>, "ValueError")
    ELSE
    LET v == IF value = None THEN (high - low) \div 2 ELSE Val(value)
        isf == value_type = "float"
        min == IF isf THEN 0 ELSE PyInt(low, Unit)
        max == IF isf THEN slider_max ELSE PyInt(high, Unit)
        bare == [exists |-> TRUE,
                 name |-> "param",
                 orientation |-> orientation,
                 value_type |-> value_type,
                 _low |-> low,
                 _high |-> high,
                 _scale |-> IF isf THEN (high - low) \div slider_max ELSE 0,
                 smin |-> min,
                 smax |-> IF max < min THEN min ELSE max,
                 pos |-> 0,
                 connected |-> "",
                 has_editbox |-> FALSE,
                 text |-> JunkText,
                 style |-> ""]
        ranged == [bare EXCEPT !.pos = QSlider_bound(bare, 0, 1)]
        set == Slider_set_val(ranged, v)
        wired == [set.self EXCEPT !.connected = update_on, !.has_editbox = TRUE]
        value_fmt == IF isf THEN Format2f(Slider_val(wired))
                     ELSE FormatD(Slider_val(wired))
    IN  IF set.raised /= "" THEN Result(NoSlider, <<>>, set.raised)
        ELSE IF update_on \notin {"move", "release"}
        THEN Result(NoSlider, <<>>, "ValueError")
        ELSE Result([wired EXCEPT !.text = value_fmt], set.emit, "")

\* a variant of __init__ that refuses low >= high
Slider_init_range_checked(low, high, value, value_type, orientation, update_on) ==
    IF low >= high \/ orientation \notin {"vertical", "horizontal"}
    THEN Result(NoSlider, <<>>, "ValueError")
    ELSE Slider_construct(low, high, value, value_type, orientation, update_on)

\* Slider.__init__: the orientation test comes first (lines 88-104)
Slider_init(low, high, value, value_type, orientation, update_on) ==
    IF orientation \notin {"vertical", "horizontal"}
    THEN Result(NoSlider, <<>>, "ValueError")
    ELSE Slider_construct(low, high, value, value_type, orientation, update_on)

(* --------------------------- the playback clock ------------------------- *)

\* fpsChanged records the last fps change made while the clock was running
\* since its start: the time and the new fps, or None
timerVars == <<now, timer, fpsChanged>>
driftVars == <<runs, runTick>>
sliderVars == <<slider, callback_calls>>

\* the state before anything is constructed or called
Idle ==
    /\ now = 0
    /\ timer = VideoTimer_init
    /\ next_frame = <<>>
    /\ raised = ""
    /\ lastOp = <<"init">>
    /\ runs = [k \in 1..2 |-> VideoTimer_init]
    /\ runTick = [k \in 1..2 |-> None]
    /\ slider = NoSlider
    /\ callback_calls = <<>>
    /\ fpsChanged = None

\* the outcome of a call on the timer: next_frame holds the indexes the call
\* emitted, raised the exception it ended with, lastOp the call and its arguments
TimerCall(r, op) ==
    /\ timer' = r.self
    /\ next_frame' = r.emit
    /\ raised' = r.raised
    /\ lastOp' = op
    /\ UNCHANGED <<now, driftVars, sliderVars>>

\* wall-clock time passes
Advance ==
    /\ now < MaxTime
    /\ now' = now + 1
    /\ next_frame' = <<>>
    /\ raised' = ""
    /\ lastOp' = <<"advance">>
    /\ UNCHANGED <<timer, fpsChanged, driftVars, sliderVars>>

SetFps ==
    \E v \in FpsValues :
        /\ TimerCall(VideoTimer_set_fps(timer, v), <<"fps", v>>)
        /\ fpsChanged' = IF timer.active /\ v /= 0 THEN Some(<<now, v>>)
                         ELSE fpsChanged

Start ==
    \E i \in StartIndexes, l \in Lengths :
        /\ TimerCall(VideoTimer_start(timer, i, l, now), <<"start", i, l>>)
        /\ fpsChanged' = None

Stop ==
    /\ TimerCall(VideoTimer_stop(timer), <<"stop">>)
    /\ fpsChanged' = None

\* the QTimer's timeout signal, connected to next: it fires only while the
\* timer is active, at any time the event loop gets to it
Timeout ==
    /\ timer.active
    /\ timer.period >= 0
    /\ TimerCall(VideoTimer_next(timer, now), <<"next", "timeout">>)
    /\ UNCHANGED fpsChanged

\* next called directly, whatever the state
Next_call ==
    /\ TimerCall(VideoTimer_next(timer, now), <<"next", "call">>)
    /\ UNCHANGED fpsChanged

Next == Advance \/ SetFps \/ Start \/ Stop \/ Timeout \/ Next_call

Spec == Idle /\ [][Next]_vars

(* ------------------- two runs of the clock, side by side ---------------- *)

\* each run fires at most MaxTicks timeouts after a start
MaxTicks == 2

\* both runs are given the same fps (a value of 0 raises and sets nothing)
DriftSetFps ==
    \E v \in FpsValues \ {0} :
        /\ runs' = [k \in 1..2 |-> VideoTimer_set_fps(runs[k], v).self]
        /\ runTick' = [k \in 1..2 |-> None]
        /\ UNCHANGED <<timerVars, next_frame, raised, lastOp, sliderVars>>

\* both runs are started, once, with the same arguments at the same time
DriftStart ==
    \E i \in StartIndexes, l \in Lengths :
        /\ \A k \in 1..2 : ~runs[k].active
        /\ runs' = [k \in 1..2 |-> VideoTimer_start(runs[k], i, l, now).self]
        /\ runTick' = [k \in 1..2 |-> None]
        /\ UNCHANGED <<timerVars, next_frame, raised, lastOp, sliderVars>>

\* the timeout of one run fires; the other run's is late or missed.
\* runTick[k] keeps the time of run k's last timeout, what it emitted and how
\* many timeouts the run has had
DriftTimeout ==
    \E k \in 1..2 :
        LET r == VideoTimer_next(runs[k], now)
            n == IF IsSet(runTick[k]) THEN Val(runTick[k]).n ELSE 0
        IN  /\ runs[k].active
            /\ runs[k].period >= 0
            /\ n < MaxTicks
            /\ runs' = [runs EXCEPT ![k] = r.self]
            /\ runTick' = [runTick EXCEPT
                              ![k] = Some([t |-> now, emit |-> r.emit,
                                           raised |-> r.raised, n |-> n + 1])]
            /\ UNCHANGED <<timerVars, next_frame, raised, lastOp, sliderVars>>

DriftAdvance ==
    /\ now < MaxTime
    /\ now' = now + 1
    /\ UNCHANGED <<timer, fpsChanged, next_frame, raised, lastOp, driftVars, sliderVars>>

DriftNext == DriftSetFps \/ DriftStart \/ DriftTimeout \/ DriftAdvance

DriftSpec == Idle /\ [][DriftNext]_vars

(* ------------------------------ the slider ------------------------------ *)

\* the sliders constructed: low and high in 1/Unit, (high - low) a multiple of
\* slider_max so that the float slider's _scale is a whole number of 1/Unit.
\* The last ones have low >= high or a value_type that is neither float nor int
SliderConfigs ==
    {[low |-> 0, high |-> Unit, value_type |-> "float"],
     [low |-> 2 * Unit, high |-> 2 * Unit + 4 * slider_max, value_type |-> "float"],
     [low |-> 0, high |-> 10 * Unit, value_type |-> "int"],
     [low |-> 5 * Unit, high |-> 9 * Unit, value_type |-> "int"],
     [low |-> Unit, high |-> 0, value_type |-> "float"],
     [low |-> Unit, high |-> Unit, value_type |-> "float"],
     [low |-> 9 * Unit, high |-> 5 * Unit, value_type |-> "int"],
     [low |-> 0, high |-> Unit, value_type |-> "complex"]}

\* the orientation and update_on arguments, the last of each not a valid one
Orientations == {"horizontal", "vertical", "diagonal"}
UpdateOns == {"move", "release", "click"}

Midpoint(low, high) == low + (high - low) \div 2

\* the value argument of the constructor: the default, the midpoint, or a
\* value above the range
ValueArgs(c) == {None, Some(Midpoint(c.low, c.high)), Some(c.high + Unit)}

\* the values the setter is called with
SetValues(self) ==
    IF self.value_type = "float"
    THEN {self._low, self._high, self._low + 7, Midpoint(self._low, self._high),
          self._low - 2000, self._high + 5000}
    ELSE {self._low, self._high, self._low + Unit,
          self._low - 3 * Unit, self._high + 2 * Unit}

\* the texts the user types
Texts(self) ==
    {JunkText, NanText}
    \cup {NumText(u) : u \in {self._low, self._high, self._low + Unit \div 2,
                              self._low + 7,
                              self._high + Unit, self._low - Unit}}

\* the positions the user drags the slider to
MovePositions(self) ==
    {p \in {self.smin, self.smin + 1, self.smax, (self.smin + self.smax) \div 2} :
        self.smin <= p /\ p <= self.smax}

SliderCall(r, op) ==
    /\ slider' = r.self
    /\ callback_calls' = r.emit
    /\ raised' = r.raised
    /\ lastOp' = op
    /\ UNCHANGED <<timerVars, next_frame, driftVars>>

Construct ==
    /\ ~slider.exists
    /\ \E c \in SliderConfigs, u \in UpdateOns, o \in Orientations :
         \E v \in ValueArgs(c) :
            SliderCall(Slider_init(c.low, c.high, v, c.value_type, o, u),
                       <<"construct", c, v, u, o>>)

\* slider.val = v
SetVal ==
    /\ slider.exists
    /\ \E v \in SetValues(slider) :
         SliderCall(Slider_set_val(slider, v), <<"set_val", v>>)

\* the user drags the slider to another position: valueChanged
UserMove ==
    /\ slider.exists
    /\ \E p \in MovePositions(slider) \ {slider.pos} :
         LET moved == [slider EXCEPT !.pos = p]
         IN  SliderCall(IF slider.connected = "move"
                        THEN Slider_on_slider_changed(moved)
                        ELSE Result(moved, <<>>, ""),
                        <<"move", p>>)

\* the user lets go of the slider: sliderReleased
UserRelease ==
    /\ slider.exists
    /\ SliderCall(IF slider.connected = "release"
                  THEN Slider_on_slider_changed(slider)
                  ELSE Result(slider, <<>>, ""),
                  <<"release">>)

\* the user types a text into the editbox and finishes: editingFinished
UserEdit ==
    /\ slider.exists
    /\ \E t \in Texts(slider) :
         SliderCall(Slider_on_editbox_changed([slider EXCEPT !.text = t]),
                    <<"edit", t>>)

SliderNext == Construct \/ SetVal \/ UserMove \/ UserRelease \/ UserEdit

SliderSpec == Idle /\ [][SliderNext]_vars

(* ---------------------------- the clock's claims ------------------------ *)

Running == timer.active
HasInterval == "_interval" \in timer.attrs
IsNextCall == lastOp[1] = "next"

\* C1: while the clock is RUNNING with length > 0, interval > 0 and
\* now >= startTime, a tick emits exactly
\* (floor((now - startTime) / interval) + startIndex) mod length, which lies
\* in 0 .. length - 1, and raises nothing
C1_FrameIndexFormula ==
    (/\ IsNextCall /\ Running /\ HasInterval
     /\ Val(timer._interval)[1] > 0
     /\ Val(timer._len) > 0
     /\ now >= Val(timer.start_time))
    => LET iv == Val(timer._interval)
           elapsedSteps == ((now - Val(timer.start_time)) * iv[2]) \div (TimeDen * iv[1])
           frameIndex == (elapsedSteps + Val(timer.start_index)) % Val(timer._len)
       IN  /\ next_frame = <<frameIndex>>
           /\ frameIndex >= 0 /\ frameIndex < Val(timer._len)
           /\ raised = ""

\* start(3, 10), then a timeout eight intervals later, emits 1
C1_Witness ==
    /\ lastOp = <<"next", "timeout">> /\ Running /\ HasInterval
    /\ timer.start_index = Some(3) /\ timer._len = Some(10)
    /\ timer._interval = Some(<<1, 2>>)
    /\ now - Val(timer.start_time) = 8 * (TimeDen \div 2)
    /\ next_frame = <<1>>

\* C2: two runs given the same start and the same fps that tick at the same
\* time emit the same index, however many of their earlier ticks fired
C2_NoDrift ==
    (/\ IsSet(runTick[1]) /\ IsSet(runTick[2])
     /\ Val(runTick[1]).t = Val(runTick[2]).t)
    => Val(runTick[1]).emit = Val(runTick[2]).emit

\* the two runs tick at the same time, after the start, one of them for the
\* first time and the other after an earlier tick, and emit an index
C2_Witness ==
    /\ IsSet(runTick[1]) /\ IsSet(runTick[2])
    /\ Val(runTick[1]).t = Val(runTick[2]).t
    /\ Val(runTick[1]).t > Val(runs[1].start_time)
    /\ Val(runTick[1]).n = 1 /\ Val(runTick[2]).n = 2
    /\ Len(Val(runTick[1]).emit) = 1
    /\ Val(runTick[1]).emit /= <<Val(runs[1].start_index)>>

\* C3 as stated: a tick while the clock is IDLE emits nothing, raises nothing
\* and leaves the clock IDLE
C3_IdleTickSilent ==
    (IsNextCall /\ ~Running)
    => next_frame = <<>> /\ raised = "" /\ ~IsSet(timer.start_time)

\* C3, amended: a tick while the clock is IDLE emits nothing and changes
\* nothing of the clock, and it ends with an AttributeError (no start yet)
\* or a TypeError (after a stop)
C3_IdleTickRaises ==
    [][(lastOp'[1] = "next" /\ ~timer.active)
       => /\ timer' = timer
          /\ next_frame' = <<>>
          /\ raised' = IF "start_time" \in timer.attrs THEN "TypeError"
                       ELSE "AttributeError"]_vars

\* next is called on a stopped clock
C3_Witness ==
    /\ lastOp = <<"next", "call">> /\ ~Running
    /\ "start_time" \in timer.attrs
    /\ raised = "TypeError"

\* C4: startIndex, length and startTime are all set exactly while the clock
\* is RUNNING and all cleared while it is IDLE; a start leaves the clock
\* RUNNING with its arguments and the current time, a stop leaves it IDLE
C4_TwoStates ==
    /\ \/ Running /\ IsSet(timer.start_index) /\ IsSet(timer._len)
                  /\ IsSet(timer.start_time)
       \/ ~Running /\ ~IsSet(timer.start_index) /\ ~IsSet(timer._len)
                   /\ ~IsSet(timer.start_time)
    /\ lastOp[1] = "start"
       => /\ Running
          /\ timer.start_index = Some(lastOp[2])
          /\ timer._len = Some(lastOp[3])
          /\ timer.start_time = Some(now)
    /\ lastOp[1] = "stop" => ~Running

\* a running clock restarted at a later time
C4_Witness ==
    /\ lastOp[1] = "start" /\ Running
    /\ now > 0 /\ timer.start_time = Some(now)
    /\ HasInterval

\* C11 as stated: start with length <= 0 fails, so a RUNNING clock always
\* has length > 0
C11_LengthChecked ==
    /\ (lastOp[1] = "start" /\ lastOp[3] <= 0) => raised /= ""
    /\ Running => Val(timer._len) > 0

\* C11, amended: start accepts every length, also length <= 0, records it
\* and raises nothing; a later tick on a clock with an fps then raises
\* ZeroDivisionError and emits nothing when length = 0, and emits an index
\* with length < index <= 0 when length < 0
C11_LengthUnchecked ==
    /\ lastOp[1] = "start"
       => raised = "" /\ Running /\ timer._len = Some(lastOp[3])
    /\ (IsNextCall /\ Running /\ HasInterval /\ Val(timer._len) = 0)
       => next_frame = <<>> /\ raised = "ZeroDivisionError"
    /\ (IsNextCall /\ Running /\ HasInterval /\ Val(timer._len) < 0)
       => /\ Len(next_frame) = 1 /\ raised = ""
          /\ Val(timer._len) < next_frame[1] /\ next_frame[1] <= 0

\* a timeout of a clock started with length 0
C11_Witness ==
    /\ lastOp = <<"next", "timeout">> /\ Running /\ HasInterval
    /\ timer._len = Some(0)
    /\ raised = "ZeroDivisionError"

\* C12 as stated: setting fps <= 0 fails, so a set interval is always > 0
C12_FpsChecked ==
    /\ (lastOp[1] = "fps" /\ lastOp[2] <= 0) => raised /= ""
    /\ HasInterval => Val(timer._interval)[1] > 0

\* C12, amended: setting fps to 0 fails with ZeroDivisionError and changes
\* nothing; any other value, negative ones too, raises nothing and sets
\* interval = 1/fps and the scheduler period to the whole milliseconds of the
\* interval (toward zero), so a set interval is never 0 but may be negative
C12_FpsUnchecked ==
    [][lastOp'[1] = "fps"
       => LET v == lastOp'[2]
              iv == Val(timer'._interval)
              p == timer'.period
          IN  /\ v = 0 => raised' = "ZeroDivisionError" /\ timer' = timer
              /\ v /= 0
                 => /\ raised' = ""
                    /\ "_interval" \in timer'.attrs
                    /\ iv[1] * v = iv[2] /\ iv[2] > 0
                    /\ Abs(p) * Abs(v) <= 1000
                    /\ 1000 < (Abs(p) + 1) * Abs(v)
                    /\ (p < 0) => (v < 0)]_vars

\* fps set to -1
C12_Witness ==
    /\ lastOp = <<"fps", -1>> /\ raised = ""
    /\ timer._interval = Some(<<-1, 1>>)
    /\ timer.period = -1000

\* C13: an fps change while the clock is RUNNING leaves startIndex, length
\* and startTime as they were and the clock RUNNING
C13_FpsKeepsStart ==
    [][(lastOp'[1] = "fps" /\ timer.active)
       => /\ timer'.start_index = timer.start_index
          /\ timer'._len = timer._len
          /\ timer'.start_time = timer.start_time
          /\ timer'.active]_vars

\* the fps of a clock that has been running for a while is set to 2
C13_Witness ==
    /\ lastOp = <<"fps", 2>> /\ raised = "" /\ Running
    /\ now > Val(timer.start_time)
    /\ timer._interval = Some(<<1, 2>>)

\* C18: after an fps change to a positive fps while the clock is RUNNING, a
\* tick emits (floor((now - startTime) * fps) + startIndex) mod length: the
\* new interval 1/fps applies to all the time elapsed since the start
C18_NewIntervalWholeElapsed ==
    (/\ IsNextCall /\ Running /\ IsSet(fpsChanged)
     /\ Val(fpsChanged)[2] > 0
     /\ Val(timer._len) > 0)
    => LET fps == Val(fpsChanged)[2]
           steps == ((now - Val(timer.start_time)) * fps) \div TimeDen
       IN  next_frame = <<(steps + Val(timer.start_index)) % Val(timer._len)>>

\* start(0, 10), the fps set to 2 two seconds later, a timeout one second
\* after that: six half-second steps since the start
C18_Witness ==
    /\ lastOp = <<"next", "timeout">> /\ Running
    /\ timer.start_index = Some(0) /\ timer._len = Some(10)
    /\ fpsChanged = Some(<<Val(timer.start_time) + 2 * TimeDen, 2>>)
    /\ now = Val(timer.start_time) + 3 * TimeDen
    /\ next_frame = <<6>>

(* --------------------------- the slider's claims ------------------------ *)

IsFloat == slider.value_type = "float"
IsSetVal == slider.exists /\ lastOp[1] = "set_val"
IsEdit == slider.exists /\ lastOp[1] = "edit"
Outside(v) == v < slider._low \/ v > slider._high

\* C5 as stated, for a slider with low < high: setValue(v) with v outside
\* [low, high] fails with an error and leaves the control position,
\* currentValue and the text as they were
C5_OutOfRangeRejected ==
    [][(/\ slider.exists /\ slider._low < slider._high
        /\ lastOp'[1] = "set_val" /\ Outside(lastOp'[2]))
       => /\ raised' /= ""
          /\ slider'.pos = slider.pos
          /\ Slider_val(slider') = Slider_val(slider)
          /\ slider'.text = slider.text]_vars

\* C5, amended: on a slider with low < high, setValue(v) with v outside
\* [low, high] raises nothing; the control goes to the end of its range
\* nearest v, so currentValue becomes low (v < low) or high (v > high), and
\* the text field is rewritten from v (FLOAT: (v - low) / scale to four
\* decimals, INT: v)
C5_OutOfRangeClamped ==
    (IsSetVal /\ slider._low < slider._high /\ Outside(lastOp[2]))
    => LET v == lastOp[2]
       IN  /\ raised = ""
           /\ v < slider._low
              => slider.pos = slider.smin /\ Slider_val(slider) = slider._low
           /\ v > slider._high
              => slider.pos = slider.smax /\ Slider_val(slider) = slider._high
           /\ slider.text = IF IsFloat
                            THEN NumText(((v - slider._low) * Unit) \div slider._scale)
                            ELSE NumText(v)

\* setValue above the range of a slider that was below its upper end
C5_Witness ==
    /\ IsSetVal /\ lastOp[2] > slider._high
    /\ slider.pos = slider.smax
    /\ callback_calls /= <<>>

\* C6: a slider with low < high always has low <= currentValue <= high
C6_ValueInRange ==
    (slider.exists /\ slider._low < slider._high)
    => slider._low <= Slider_val(slider) /\ Slider_val(slider) <= slider._high

\* a slider with low /= 0 right after construction with the default value,
\* which lies below low
C6_Witness ==
    /\ slider.exists /\ lastOp[1] = "construct"
    /\ lastOp[3] = None
    /\ (slider._high - slider._low) \div 2 < slider._low
    /\ Slider_val(slider) = slider._low

\* the text does not read as a number, or reads as one outside [low, high]
BadText(t) == t.kind /= "num" \/ t.u < slider._low \/ t.u > slider._high

\* C7: a text edit that does not parse, or parses to a value outside
\* [low, high], sets the invalid-input indicator, leaves the control position
\* and currentValue as they were, calls no callback and raises nothing
C7_BadTextRejected ==
    [][(slider.exists /\ lastOp'[1] = "edit" /\ BadText(lastOp'[2]))
       => /\ slider'.style = "pink"
          /\ slider'.pos = slider.pos
          /\ Slider_val(slider') = Slider_val(slider)
          /\ callback_calls' = <<>>
          /\ raised' = ""]_vars

\* a number above the range typed into a slider that showed no indicator
C7_Witness ==
    /\ IsEdit /\ lastOp[2].kind = "num" /\ lastOp[2].u > slider._high
    /\ slider.style = "pink"
    /\ slider.text = lastOp[2]
    /\ Slider_val(slider) < slider._high

\* the change the last operation asked for was accepted
Accepted ==
    \/ IsSetVal /\ ~Outside(lastOp[2])
    \/ IsEdit /\ ~BadText(lastOp[2])
    \/ slider.exists /\ lastOp[1] = "move" /\ slider.connected = "move"
    \/ slider.exists /\ lastOp[1] = "release" /\ slider.connected = "release"

Rejected ==
    \/ IsSetVal /\ Outside(lastOp[2])
    \/ IsEdit /\ BadText(lastOp[2])

\* C8, for a slider with low < high: the callback is called exactly once,
\* with the slider's name, by every accepted value change, and not at all by
\* a rejected one
C8_CallbackOnce ==
    (slider.exists /\ slider._low < slider._high)
    => /\ Accepted
          => Len(callback_calls) = 1 /\ callback_calls[1][1] = slider.name
       /\ Rejected => callback_calls = <<>>

\* C9: on an INT slider, setValue(v) with low <= v <= high leaves the control
\* at v, and getValue() returns v
C9_IntRoundTrip ==
    (IsSetVal /\ ~IsFloat /\ ~Outside(lastOp[2]))
    => Slider_val(slider) = lastOp[2] /\ slider.pos * Unit = lastOp[2]

\* setValue(6) on the INT slider over 5..9
C9_Witness ==
    /\ IsSetVal /\ ~IsFloat
    /\ lastOp[2] = slider._low + Unit /\ slider._low = 5 * Unit
    /\ slider.pos = 6

\* C10 as stated: on a FLOAT slider, setValue(v) with low <= v <= high puts
\* the control at round((v - low) / scale), within 0..1000, and getValue() is
\* then within scale of v
C10_FloatRounds ==
    (IsSetVal /\ IsFloat /\ ~Outside(lastOp[2]))
    => LET v == lastOp[2]
           d == Slider_val(slider) - v
       IN  /\ slider.pos = RoundDiv(v - slider._low, slider._scale)
           /\ 0 <= slider.pos /\ slider.pos <= slider_max
           /\ -slider._scale <= d /\ d <= slider._scale

\* C10, amended: the control is put at the integer part of (v - low) / scale,
\* within 0..1000, and getValue() is then at most v and less than scale below it
C10_FloatTruncates ==
    (IsSetVal /\ IsFloat /\ ~Outside(lastOp[2]))
    => LET v == lastOp[2]
           d == v - Slider_val(slider)
       IN  /\ slider.pos = (v - slider._low) \div slider._scale
           /\ 0 <= slider.pos /\ slider.pos <= slider_max
           /\ 0 <= d /\ d < slider._scale

\* setValue of a value seven tenths of a step above low
C10_Witness ==
    /\ IsSetVal /\ IsFloat
    /\ lastOp[2] = slider._low + 7 /\ slider._scale = 10
    /\ slider.pos = 0

\* the arguments of the last construction
ConfigArg == lastOp[2]
IsConstruct == lastOp[1] = "construct"
BadEnum ==
    \/ ConfigArg.value_type \notin {"float", "int"}
    \/ lastOp[4] \notin {"move", "release"}
    \/ lastOp[5] \notin {"horizontal", "vertical"}

\* C14 as stated: construction with low >= high, or with a value_type,
\* orientation or update_on that is not a valid one, fails and leaves no slider
C14_ConstructChecked ==
    (IsConstruct /\ (ConfigArg.low >= ConfigArg.high \/ BadEnum))
    => ~slider.exists /\ raised /= ""

\* C14, amended: construction fails with ValueError and leaves no slider when
\* value_type, orientation or update_on is not a valid one; low >= high is not
\* tested: a FLOAT slider with low = high fails with ZeroDivisionError (its
\* scale is 0), and every other slider with low >= high is constructed
C14_ConstructEnumsChecked ==
    IsConstruct
    => LET zeroScale == /\ ConfigArg.value_type = "float"
                        /\ ConfigArg.low = ConfigArg.high
                        /\ lastOp[5] \in {"horizontal", "vertical"}
       IN  /\ zeroScale => ~slider.exists /\ raised = "ZeroDivisionError"
           /\ (BadEnum /\ ~zeroScale) => ~slider.exists /\ raised = "ValueError"
           /\ (~BadEnum /\ ~zeroScale)
              => /\ slider.exists /\ raised = ""
                 /\ slider._low = ConfigArg.low /\ slider._high = ConfigArg.high

\* a slider constructed with low > high
C14_Witness ==
    /\ IsConstruct /\ slider.exists
    /\ ConfigArg.low > ConfigArg.high
    /\ slider._low > slider._high

\* C15: a slider with low < high constructed without a value starts at the
\* midpoint of low and high, FLOAT within one step of it
C15_DefaultIsMidpoint ==
    (/\ IsConstruct /\ slider.exists /\ lastOp[3] = None
     /\ slider._low < slider._high)
    => LET d == Slider_val(slider) - Midpoint(slider._low, slider._high)
       IN  Abs(d) <= slider._scale

\* C16, for a slider with low < high: after an accepted value change the text
\* shows the value getValue() returns, FLOAT to two decimals, INT as the integer
C16_TextShowsValue ==
    (slider.exists /\ slider._low < slider._high /\ Accepted)
    => IF IsFloat
       THEN slider.text.kind = "num"
            /\ Format2f(slider.text.u) = Format2f(Slider_val(slider))
       ELSE slider.text = FormatD(Slider_val(slider))

\* C17: every value the callback is called with is the value getValue()
\* returns
C17_CallbackGetsValue ==
    slider.exists
    => \A i \in 1..Len(callback_calls) :
          callback_calls[i][2] = Slider_val(slider)

====
